---- MODULE Spec2Model ----
(***************************************************************************)
(* Model of the ESP32-CAM streaming server, src/esp32_camera_code.ino:     *)
(* the frame-buffer pool of the camera driver, the stream handler's loop   *)
(* (the definition at lines 414-486), the capture, control and index       *)
(* handlers of the control listener, and the running-average rate filter.  *)
(* The earlier definition of stream_handler (lines 285-338), which writes  *)
(* no usable part header and feeds no filter, is not modelled.             *)
(*                                                                         *)
(* The camera driver with its sensor setters, the HTTP server library and  *)
(* malloc are the environment: a call that can fail in the                 *)
(* library fails or succeeds nondeterministically, and the handler's own   *)
(* branches on the result are translated from the source.                  *)
(***************************************************************************)
EXTENDS Integers, Sequences, FiniteSets, TLC

(***************************************************************************)
(* Bounds of the model.                                                    *)
(***************************************************************************)
\* successful frame acquisitions allowed in one stream session
MaxFrames == 2
\* largest frame / converted-buffer length
MaxFrameLen == 2
\* how many names of the dispatch chain (in chain order) requests may carry
MaxNames == 1
\* the clock stops advancing after this many steps of 1500 microseconds
MaxClock == 2
\* largest advance of the clock between two reads, in such steps
MaxDelta == 1
\* largest window of the rate filter, longest history and largest sample
\* explored by FilterSpec
MaxWindow == 3
MaxSamples == 5
MaxSample == 2

(***************************************************************************)
(* Values of the program.                                                  *)
(***************************************************************************)
NULL == "NULL"
ESP_OK == "ESP_OK"
ESP_FAIL == "ESP_FAIL"
PIXFORMAT_JPEG == "PIXFORMAT_JPEG"
PIXFORMAT_RGB565 == "PIXFORMAT_RGB565"
PixFormats == {PIXFORMAT_JPEG, PIXFORMAT_RGB565}

\* the three chunks of one multipart part, and the chunks of /capture
PART_HDR == "part_header"
PART_JPG == "jpg_payload"
PART_BOUNDARY == "boundary"

(***************************************************************************)
(* atoi(value): optional blanks, optional sign, then the longest run of    *)
(* decimal digits; anything else ends the number (no digits gives 0).      *)
(* The query value is a sequence of one-character strings.                 *)
(***************************************************************************)
DigitVal == [c \in {"0", "1", "2", "3", "4", "5", "6", "7", "8", "9"} |->
               CASE c = "0" -> 0 [] c = "1" -> 1 [] c = "2" -> 2 [] c = "3" -> 3
                 [] c = "4" -> 4 [] c = "5" -> 5 [] c = "6" -> 6 [] c = "7" -> 7
                 [] c = "8" -> 8 [] c = "9" -> 9]

RECURSIVE AtoiDigits(_, _)
AtoiDigits(s, acc) ==
    IF s = <<>> \/ Head(s) \notin DOMAIN DigitVal
    THEN acc
    ELSE AtoiDigits(Tail(s), acc * 10 + DigitVal[Head(s)])

RECURSIVE SkipBlanks(_)
SkipBlanks(s) ==
    IF s # <<>> /\ Head(s) = " " THEN SkipBlanks(Tail(s)) ELSE s

atoi(str) ==
    LET s == SkipBlanks(str) IN
    IF s = <<>> THEN 0
    ELSE IF Head(s) = "-" THEN 0 - AtoiDigits(Tail(s), 0)
    ELSE IF Head(s) = "+" THEN AtoiDigits(Tail(s), 0)
    ELSE AtoiDigits(s, 0)

(***************************************************************************)
(* snprintf's %u, as _STREAM_PART uses it for Content-Length: the decimal  *)
(* digits of the value, most significant first.  The argument is a size_t, *)
(* which has the width of unsigned on the target, so no digit is lost.     *)
(***************************************************************************)
DigitChars == << "0", "1", "2", "3", "4", "5", "6", "7", "8", "9" >>

RECURSIVE FormatDigits(_)
FormatDigits(n) ==
    IF n < 10 THEN << DigitChars[n + 1] >>
    ELSE Append(FormatDigits(n \div 10), DigitChars[(n % 10) + 1])

FormatU(n) == FormatDigits(n)

(***************************************************************************)
(* The dispatch chain of cmd_handler: the 23 names it compares `variable`  *)
(* with, in order, and the driver setter each one calls.                   *)
(***************************************************************************)
ChainNames ==
    << "framesize", "quality", "contrast", "brightness", "saturation",
       "gainceiling", "colorbar", "awb", "agc", "aec", "hmirror", "vflip",
       "awb_gain", "agc_gain", "aec_value", "aec2", "dcw", "bpc", "wpc",
       "raw_gma", "lenc", "wb_mode", "ae_level" >>

ChainSetters ==
    << "set_framesize", "set_quality", "set_contrast", "set_brightness",
       "set_saturation", "set_gainceiling", "set_colorbar", "set_whitebal",
       "set_gain_ctrl", "set_exposure_ctrl", "set_hmirror", "set_vflip",
       "set_awb_gain", "set_agc_gain", "set_aec_value", "set_aec2", "set_dcw",
       "set_bpc", "set_wpc", "set_raw_gma", "set_lenc", "set_wb_mode",
       "set_ae_level" >>

KnownNames == {ChainNames[i] : i \in 1..Len(ChainNames)}

\* the setters whose last applied value makes up the Sensor Parameter Set
Setters == {ChainSetters[i] : i \in 1..Len(ChainSetters)} \cup {"set_special_effect"}

\* the setter the chain reaches for a known name
SetterFor(variable) ==
    ChainSetters[CHOOSE i \in 1..Len(ChainNames) : ChainNames[i] = variable]

(***************************************************************************)
(* The sensor driver.  A setter applies a value inside the parameter's     *)
(* range and returns 0; outside it returns -1 and changes nothing.  The    *)
(* ranges are the ones the comments of setup() give; framesize, quality,   *)
(* aec_value and ae_level have the ranges of the OV2640 driver.            *)
(***************************************************************************)
DriverRange(setter) ==
    CASE setter \in {"set_brightness", "set_contrast", "set_saturation",
                     "set_ae_level"} -> -2..2
      [] setter = "set_special_effect" -> 0..6
      [] setter = "set_wb_mode" -> 0..4
      [] setter = "set_agc_gain" -> 0..30
      [] setter = "set_gainceiling" -> 0..6
      [] setter = "set_framesize" -> 0..13
      [] setter = "set_quality" -> 0..63
      [] setter = "set_aec_value" -> 0..1200
      [] OTHER -> 0..1

\* a setter that would add the value to the current one
DriverSetRelative(params, setter, val) ==
    IF params[setter] + val \in DriverRange(setter)
    THEN [params |-> [params EXCEPT ![setter] = @ + val], res |-> 0]
    ELSE [params |-> params, res |-> -1]

\* a setter that would store the value before it rejects it
DriverSetPartial(params, setter, val) ==
    [params |-> [params EXCEPT ![setter] = val],
     res |-> IF val \in DriverRange(setter) THEN 0 ELSE -1]

\* s->set_xxx(s, val): the new parameter set and the int the setter returns
DriverSet(params, setter, val) ==
    IF val \in DriverRange(setter)
    THEN [params |-> [params EXCEPT ![setter] = val], res |-> 0]
    ELSE [params |-> params, res |-> -1]

\* the parameter set after esp_camera_init(&config) and the setters of setup()
InitialParams(psram) ==
    [s \in Setters |->
        CASE s = "set_framesize" -> IF psram THEN 13 ELSE 9
          [] s = "set_quality" -> IF psram THEN 10 ELSE 12
          [] s \in {"set_whitebal", "set_awb_gain", "set_exposure_ctrl",
                    "set_gain_ctrl", "set_wpc", "set_raw_gma", "set_lenc",
                    "set_dcw"} -> 1
          [] OTHER -> 0]

(***************************************************************************)
(* The query string of a request, as the key/value lookups see it: the set *)
(* of keys present, the value of "var" (a string) and the value of "val"   *)
(* (a sequence of characters, which atoi reads).  A query with no key is   *)
(* the empty query string (length 0).                                      *)
(***************************************************************************)
NoQuery == [keys |-> {}, var |-> "", val |-> <<>>]

\* httpd_req_get_url_query_len(req)
httpd_req_get_url_query_len(q) == Cardinality(q.keys)

\* httpd_query_key_value(buf, key, ...) == ESP_OK
httpd_query_key_value_ok(q, key) == key \in q.keys

(***************************************************************************)
(* cmd_handler, lines 347-371: reading `variable` and `value`.  status 0   *)
(* means both were read and the handler goes on; otherwise the handler     *)
(* answers with `status` and returns ESP_FAIL.                             *)
(***************************************************************************)
QueryArgsValNotChecked(q, mallocOk, queryStrOk) ==
    IF httpd_req_get_url_query_len(q) + 1 > 1
    THEN IF ~mallocOk
         THEN [status |-> 500]
         ELSE IF queryStrOk
              THEN IF httpd_query_key_value_ok(q, "var")
                   THEN [status |-> 0, variable |-> q.var, value |-> q.val]
                   ELSE [status |-> 404]
              ELSE [status |-> 404]
    ELSE [status |-> 404]

QueryArgs(q, mallocOk, queryStrOk) ==
    IF httpd_req_get_url_query_len(q) + 1 > 1
    THEN IF ~mallocOk
         THEN [status |-> 500]
         ELSE IF queryStrOk
              THEN IF httpd_query_key_value_ok(q, "var")
                      /\ httpd_query_key_value_ok(q, "val")
                   THEN [status |-> 0, variable |-> q.var, value |-> q.val]
                   ELSE [status |-> 404]
              ELSE [status |-> 404]
    ELSE [status |-> 404]

(***************************************************************************)
(* cmd_handler, lines 373-404: the dispatch chain.  calls is the sequence  *)
(* of driver setter calls made, res the int tested at line 406.            *)
(***************************************************************************)
DispatchUnknownAccepted(variable, val, pixformat, params) ==
    IF variable = "framesize"
    THEN IF pixformat = PIXFORMAT_JPEG
         THEN LET r == DriverSet(params, "set_framesize", val)
              IN  [params |-> r.params, res |-> r.res,
                   calls |-> << <<"set_framesize", val>> >>]
         ELSE [params |-> params, res |-> 0, calls |-> <<>>]
    ELSE IF variable \in KnownNames
    THEN LET r == DriverSet(params, SetterFor(variable), val)
         IN  [params |-> r.params, res |-> r.res,
              calls |-> << <<SetterFor(variable), val>> >>]
    ELSE [params |-> params, res |-> 0, calls |-> <<>>]

Dispatch(variable, val, pixformat, params) ==
    IF variable = "framesize"
    THEN IF pixformat = PIXFORMAT_JPEG
         THEN LET r == DriverSet(params, "set_framesize", val)
              IN  [params |-> r.params, res |-> r.res,
                   calls |-> << <<"set_framesize", val>> >>]
         ELSE [params |-> params, res |-> 0, calls |-> <<>>]
    ELSE IF variable \in KnownNames
    THEN LET r == DriverSet(params, SetterFor(variable), val)
         IN  [params |-> r.params, res |-> r.res,
              calls |-> << <<SetterFor(variable), val>> >>]
    ELSE [params |-> params, res |-> -1, calls |-> <<>>]

\* a response: the status sent (0: none yet), the content type, the extra
\* headers set, and the body chunks written
NoResponse == [status |-> 0, type |-> "", hdrs |-> {}, body |-> <<>>]

\* httpd_resp_send* return ESP_OK when the socket took the response
SendResult(sendOk) == IF sendOk THEN ESP_OK ELSE ESP_FAIL

(***************************************************************************)
(* cmd_handler, lines 341-412, as a function of the request and of what    *)
(* the environment does: the response, the value returned, the setter      *)
(* calls made and the Sensor Parameter Set afterwards.                     *)
(***************************************************************************)
cmd_handler(q, mallocOk, queryStrOk, sendOk, pixformat, params) ==
    LET a == QueryArgs(q, mallocOk, queryStrOk) IN
    IF a.status # 0
    THEN [resp |-> [NoResponse EXCEPT !.status = a.status], ret |-> ESP_FAIL,
          calls |-> <<>>, params |-> params]
    ELSE LET d == Dispatch(a.variable, atoi(a.value), pixformat, params) IN
         IF d.res # 0
         THEN [resp |-> [NoResponse EXCEPT !.status = 500],
               ret |-> SendResult(sendOk), calls |-> d.calls, params |-> d.params]
         ELSE [resp |-> [NoResponse EXCEPT !.status = 200,
                            !.hdrs = {"Access-Control-Allow-Origin"}],
               ret |-> SendResult(sendOk), calls |-> d.calls, params |-> d.params]

(***************************************************************************)
(* The rate filter.  values = <<>> stands for the NULL buffer of a filter  *)
(* that was never initialised (static storage) or whose malloc failed;     *)
(* index is the C index (0-based), values is indexed from 1.               *)
(***************************************************************************)
\* what the static would hold had ra_filter_init(&ra_filter, 2) run at startup
FilterAfterInit ==
    [values |-> <<0, 0>>, size |-> 2, index |-> 0, count |-> 0, sum |-> 0]

ZeroFilter == [values |-> <<>>, size |-> 0, index |-> 0, count |-> 0, sum |-> 0]

\* C integer division: the quotient truncated towards zero
CDiv(a, b) ==
    IF (a >= 0) = (b > 0) THEN (IF a >= 0 THEN a ELSE 0 - a) \div (IF b > 0 THEN b ELSE 0 - b)
    ELSE 0 - ((IF a >= 0 THEN a ELSE 0 - a) \div (IF b > 0 THEN b ELSE 0 - b))

ra_filter_init(sample_size, mallocOk) ==
    IF ~mallocOk
    THEN ZeroFilter
    ELSE [values |-> [i \in 1..sample_size |-> 0], size |-> sample_size,
          index |-> 0, count |-> 0, sum |-> 0]

ra_filter_run_no_subtract(filter, value) ==
    IF filter.values = <<>>
    THEN [filter |-> filter, ret |-> value]
    ELSE LET values == [filter.values EXCEPT ![filter.index + 1] = value]
             sum    == filter.sum + values[filter.index + 1]
             index  == (filter.index + 1) % filter.size
             count  == IF filter.count < filter.size
                       THEN filter.count + 1 ELSE filter.count
         IN  [filter |-> [values |-> values, size |-> filter.size, index |-> index,
                          count |-> count, sum |-> sum],
              ret |-> CDiv(sum, count)]

ra_filter_run_no_saturate(filter, value) ==
    IF filter.values = <<>>
    THEN [filter |-> filter, ret |-> value]
    ELSE LET sum1   == filter.sum - filter.values[filter.index + 1]
             values == [filter.values EXCEPT ![filter.index + 1] = value]
             sum    == sum1 + values[filter.index + 1]
             index  == (filter.index + 1) % filter.size
             count  == filter.count + 1
         IN  [filter |-> [values |-> values, size |-> filter.size, index |-> index,
                          count |-> count, sum |-> sum],
              ret |-> CDiv(sum, count)]

ra_filter_run(filter, value) ==
    IF filter.values = <<>>
    THEN [filter |-> filter, ret |-> value]
    ELSE LET sum1   == filter.sum - filter.values[filter.index + 1]
             values == [filter.values EXCEPT ![filter.index + 1] = value]
             sum    == sum1 + values[filter.index + 1]
             index  == (filter.index + 1) % filter.size
             count  == IF filter.count < filter.size
                       THEN filter.count + 1 ELSE filter.count
         IN  [filter |-> [values |-> values, size |-> filter.size, index |-> index,
                          count |-> count, sum |-> sum],
              ret |-> CDiv(sum, count)]

(***************************************************************************)
(* State.                                                                  *)
(***************************************************************************)
VARIABLES
    \* the driver: the sensor's pixel format, the Sensor Parameter Set, the
    \* frame-buffer pool (slot -> who holds it), the microsecond clock
    pixformat, params, pool, now,
    \* stream_handler: position, locals (fb, res, _jpg_buf, _jpg_buf_len),
    \* the static last_frame, the response written so far
    sPc, fb, res, jpg_buf, jpg_buf_len, last_frame, sResp,
    \* what the stream session did: a record of counters (see NoSession)
    sess,
    \* the global rate filter, the samples given to it, its last result
    ra_filter, fed, avg,
    \* the control listener: position, capture_handler's fb and res, the
    \* request being served or served last (with what the environment did
    \* to it, see CmdFaults), its response, the value the
    \* handler returned, the driver setter calls and frame events it made
    cPc, cfb, cres, creq, cResp, cRet, calls, capLog

vars == << pixformat, params, pool, now, sPc, fb, res, jpg_buf, jpg_buf_len,
           last_frame, sResp, sess, ra_filter, fed, avg,
           cPc, cfb, cres, creq, cResp, cRet, calls, capLog >>

driverVars  == << pixformat, params, pool, now >>
streamVars  == << sPc, fb, res, jpg_buf, jpg_buf_len, last_frame, sResp, sess >>
filterVars  == << ra_filter, fed, avg >>
controlVars == << cPc, cfb, cres, creq, cResp, cRet, calls, capLog >>

\* camera_fb_t *: NoFrame is the NULL pointer, otherwise the pool slot with
\* the frame's format and length
NoFrame == [slot |-> 0, format |-> "", len |-> 0]

\* _jpg_buf: NULL, the buffer of the hardware frame, or a converted buffer
\* that frame2jpg allocated
BUF_OF_FB == "fb->buf"
BUF_MALLOC == "malloc"

(***************************************************************************)
(* What a stream session has done so far:                                  *)
(*   gets, returns   esp_camera_fb_get successes / esp_camera_fb_return    *)
(*   allocs, frees   buffers frame2jpg allocated / free(_jpg_buf) calls    *)
(*   itReturns, itFrees   the same two give-backs, in the current iteration*)
(*   itAllocs        buffers frame2jpg allocated in the current iteration  *)
(*   itAcquired      the current iteration acquired a frame                *)
(*   itWrites        chunks written by the current iteration               *)
(*   failedWrite     the write of the current iteration that failed        *)
(*   parts           parts completed (header, payload and boundary)        *)
(*   hdrLen, payLen  Content-Length digits of the last header written, the *)
(*                   length of the last payload written                    *)
(*   poolFrees       free() calls on a buffer of the hardware pool         *)
(*   records         ra_filter_run calls                                   *)
(*   returned        the handler has returned                              *)
(***************************************************************************)
NoSession ==
    [gets |-> 0, returns |-> 0, allocs |-> 0, frees |-> 0,
     itReturns |-> 0, itFrees |-> 0, itAllocs |-> 0, itAcquired |-> FALSE,
     itWrites |-> <<>>,
     failedWrite |-> "", parts |-> 0, hdrLen |-> <<>>, payLen |-> 0,
     poolFrees |-> 0, records |-> 0, returned |-> FALSE]

(***************************************************************************)
(* The driver's frame pool.                                                *)
(***************************************************************************)
FreeSlots(p) == {i \in DOMAIN p : p[i] = "free"}

\* esp_camera_fb_get(): the frames it may return; NoFrame (the acquire timed
\* out) is always possible, and the only outcome while no slot is free
esp_camera_fb_get(p, format) ==
    {NoFrame} \cup
    (IF FreeSlots(p) = {} THEN {}
     ELSE {[slot |-> CHOOSE i \in FreeSlots(p) : \A j \in FreeSlots(p) : i <= j,
            format |-> format, len |-> n] : n \in 1..MaxFrameLen})

\* esp_camera_fb_return(fb)
esp_camera_fb_return(p, f) == [p EXCEPT ![f.slot] = "free"]

\* esp_timer_get_time(): the clock never runs backwards
esp_timer_get_time ==
    {now + 1500 * d : d \in {e \in 0..MaxDelta : now + 1500 * e <= 1500 * MaxClock}}

(***************************************************************************)
(* Init: setup() has run.  psramFound() decides the pool size and the      *)
(* initial frame size and quality.  The handlers branch on the pixel       *)
(* format the driver reports, so both the compressed configuration of      *)
(* line 126 and a raw one are explored.  ra_filter is the zeroed static of *)
(* line 498: nothing in the file calls ra_filter_init.                     *)
(***************************************************************************)
Init ==
    /\ pixformat \in PixFormats
    /\ \E psram \in BOOLEAN :
          /\ params = InitialParams(psram)
          /\ pool = [i \in 1..(IF psram THEN 2 ELSE 1) |-> "free"]
    /\ now = 1500
    /\ sPc = "idle" /\ fb = NoFrame /\ res = ESP_OK
    /\ jpg_buf = NULL /\ jpg_buf_len = 0 /\ last_frame = 0
    /\ sResp = NoResponse /\ sess = NoSession
    /\ ra_filter = ZeroFilter /\ fed = <<>> /\ avg = 0
    /\ cPc = "idle" /\ cfb = NoFrame /\ cres = ESP_OK
    /\ creq = [path |-> "", query |-> NoQuery, fault |-> "none"]
    /\ cResp = NoResponse /\ cRet = ESP_OK /\ calls = <<>> /\ capLog = <<>>

(***************************************************************************)
(* stream_handler, lines 414-486.                                          *)
(***************************************************************************)
STREAM_CONTENT_TYPE == "multipart/x-mixed-replace;boundary=123456789000000000000987654321"

\* lines 414-431: a /stream connection is accepted and the handler starts
StreamStart ==
    /\ sPc = "idle"
    /\ \E t \in (IF last_frame = 0 THEN esp_timer_get_time ELSE {now}) :
          /\ now' = t
          /\ last_frame' = IF last_frame = 0 THEN t ELSE last_frame
    /\ fb' = NoFrame /\ jpg_buf' = NULL /\ jpg_buf_len' = 0
    /\ \E typeOk \in BOOLEAN :
          IF typeOk
          THEN /\ res' = ESP_OK
               /\ sResp' = [NoResponse EXCEPT !.type = STREAM_CONTENT_TYPE,
                               !.hdrs = {"Access-Control-Allow-Origin"}]
               /\ sess' = NoSession
               /\ sPc' = "acquire"
          ELSE /\ res' = ESP_FAIL
               /\ sResp' = NoResponse
               /\ sess' = [NoSession EXCEPT !.returned = TRUE]
               /\ sPc' = "idle"
    /\ UNCHANGED << pixformat, params, pool, filterVars, controlVars >>

\* lines 434-438: fb = esp_camera_fb_get()
StreamAcquire ==
    /\ sPc = "acquire"
    /\ \E f \in esp_camera_fb_get(pool, pixformat) :
          /\ f # NoFrame => sess.gets < MaxFrames
          /\ fb' = f
          /\ IF f = NoFrame
             THEN /\ res' = ESP_FAIL
                  /\ pool' = pool
                  /\ sess' = [sess EXCEPT !.itAcquired = FALSE, !.itReturns = 0,
                                 !.itFrees = 0, !.itAllocs = 0, !.itWrites = <<>>]
                  /\ sPc' = "write_hdr"
             ELSE /\ res' = res
                  /\ pool' = [pool EXCEPT ![f.slot] = "stream"]
                  /\ sess' = [sess EXCEPT !.gets = @ + 1, !.itAcquired = TRUE,
                                 !.itReturns = 0, !.itFrees = 0, !.itAllocs = 0,
                                 !.itWrites = <<>>]
                  /\ sPc' = "convert"
    /\ UNCHANGED << pixformat, params, now, jpg_buf, jpg_buf_len, last_frame,
                    sResp, filterVars, controlVars >>

\* line 439: the frames that go through frame2jpg and are released at once
NeedsConversionAlways(f) == TRUE

NeedsConversion(f) == f.format # PIXFORMAT_JPEG

\* lines 439-450: a raw frame is converted and released, a compressed one is
\* used in place
StreamConvert ==
    /\ sPc = "convert"
    /\ IF NeedsConversion(fb)
       THEN \E jpeg_converted \in BOOLEAN, n \in 1..MaxFrameLen :
               /\ jpg_buf' = IF jpeg_converted THEN BUF_MALLOC ELSE jpg_buf
               /\ jpg_buf_len' = IF jpeg_converted THEN n ELSE jpg_buf_len
               /\ pool' = esp_camera_fb_return(pool, fb)
               /\ fb' = NoFrame
               /\ res' = IF jpeg_converted THEN res ELSE ESP_FAIL
               /\ sess' = [sess EXCEPT !.returns = @ + 1, !.itReturns = @ + 1,
                              !.allocs = IF jpeg_converted THEN @ + 1 ELSE @,
                              !.itAllocs = IF jpeg_converted THEN @ + 1 ELSE @]
       ELSE /\ jpg_buf_len' = fb.len
            /\ jpg_buf' = BUF_OF_FB
            /\ UNCHANGED << pool, fb, res, sess >>
    /\ sPc' = "write_hdr"
    /\ UNCHANGED << pixformat, params, now, last_frame, sResp, filterVars,
                    controlVars >>

\* the test `res == ESP_OK` that guards each of the three writes
WriteGuardAlways(r) == TRUE

WriteGuard(r) == r = ESP_OK

\* one `if(res == ESP_OK){ res = httpd_resp_send_chunk(...); }`
StreamWrite(here, chunk, next) ==
    /\ sPc = here
    /\ IF WriteGuard(res)
       THEN \E ok \in BOOLEAN :
               IF ok
               THEN /\ res' = ESP_OK
                    /\ sResp' = [sResp EXCEPT !.body = Append(@, chunk)]
                    /\ sess' = [sess EXCEPT
                          !.itWrites = Append(@, chunk),
                          !.hdrLen = IF chunk = PART_HDR THEN FormatU(jpg_buf_len) ELSE @,
                          !.payLen = IF chunk = PART_JPG THEN jpg_buf_len ELSE @,
                          !.parts = IF chunk = PART_BOUNDARY THEN @ + 1 ELSE @]
               ELSE /\ res' = ESP_FAIL
                    /\ sResp' = sResp
                    /\ sess' = [sess EXCEPT !.failedWrite = chunk]
       ELSE UNCHANGED << res, sResp, sess >>
    /\ sPc' = next
    /\ UNCHANGED << driverVars, fb, jpg_buf, jpg_buf_len, last_frame,
                    filterVars, controlVars >>

\* lines 419 and 453: part_buf is an array of 64 pointers that is never
\* initialised, and snprintf writes the part header through part_buf[0].
\* The write either lands in memory that takes it, and the handler goes on,
\* or faults: the firmware panics and nothing runs until setup() restarts.
\* (A stray write that corrupts other state is not modelled.)
StreamPanic ==
    /\ sPc = "write_hdr"
    /\ WriteGuard(res)
    /\ sPc' = "panic"
    /\ UNCHANGED << driverVars, fb, res, jpg_buf, jpg_buf_len, last_frame, sResp,
                    sess, filterVars, controlVars >>

\* lines 452-455
StreamWriteHeader ==
    \/ StreamWrite("write_hdr", PART_HDR, "write_jpg")
    \/ StreamPanic
\* lines 456-458
StreamWritePayload == StreamWrite("write_jpg", PART_JPG, "write_boundary")
\* lines 459-461
StreamWriteBoundary == StreamWrite("write_boundary", PART_BOUNDARY, "give_back")

\* lines 462-469: which give-back the end of the iteration performs
GiveBackFreeFirst(f, buf) ==
    IF buf # NULL THEN "free" ELSE IF f # NoFrame THEN "return" ELSE "none"

GiveBackNoFree(f, buf) ==
    IF f # NoFrame THEN "return" ELSE "none"

GiveBackOp(f, buf) ==
    IF f # NoFrame THEN "return" ELSE IF buf # NULL THEN "free" ELSE "none"

\* lines 470-472: the test that leaves the loop
LoopBreaksNever(r) == FALSE

LoopBreaks(r) == r # ESP_OK

\* lines 462-472 and, when the loop breaks, 484-485
StreamGiveBack ==
    /\ sPc = "give_back"
    /\ LET op == GiveBackOp(fb, jpg_buf) IN
       /\ pool' = IF op = "return" THEN esp_camera_fb_return(pool, fb) ELSE pool
       /\ fb' = IF op = "return" THEN NoFrame ELSE fb
       /\ jpg_buf' = IF op = "none" THEN jpg_buf ELSE NULL
       /\ sess' = [sess EXCEPT
             !.returns = IF op = "return" THEN @ + 1 ELSE @,
             !.itReturns = IF op = "return" THEN @ + 1 ELSE @,
             !.frees = IF op = "free" THEN @ + 1 ELSE @,
             !.itFrees = IF op = "free" THEN @ + 1 ELSE @,
             !.poolFrees = IF op = "free" /\ jpg_buf = BUF_OF_FB THEN @ + 1 ELSE @,
             !.returned = LoopBreaks(res)]
    /\ IF LoopBreaks(res)
       THEN /\ last_frame' = 0
            /\ jpg_buf_len' = 0
            /\ sPc' = "idle"
       ELSE /\ UNCHANGED << last_frame, jpg_buf_len >>
            /\ sPc' = "record"
    /\ UNCHANGED << pixformat, params, now, res, sResp, filterVars, controlVars >>

\* lines 473-481: the frame time goes to the rate filter
StreamRecord ==
    /\ sPc = "record"
    /\ \E fr_end \in esp_timer_get_time :
          LET frame_time == CDiv(fr_end - last_frame, 1000)
              r == ra_filter_run(ra_filter, frame_time)
          IN  /\ now' = fr_end
              /\ last_frame' = fr_end
              /\ ra_filter' = r.filter
              /\ avg' = r.ret
              /\ fed' = IF ra_filter.values = <<>> THEN fed
                        ELSE Append(fed, frame_time)
    /\ sess' = [sess EXCEPT !.records = @ + 1]
    /\ sPc' = "acquire"
    /\ UNCHANGED << pixformat, params, pool, fb, res, jpg_buf, jpg_buf_len,
                    sResp, controlVars >>

(***************************************************************************)
(* The control listener: index_handler, cmd_handler, capture_handler.      *)
(***************************************************************************)
\* the firmware is running (see StreamPanic)
Alive == sPc # "panic"

\* the requests explored: the first MaxNames names of the chain and a name
\* that is not in it; the values "1" and "-9"; queries with both keys, with
\* only one of them, and the empty query
ReqNames == {ChainNames[i] : i \in 1..MaxNames} \cup {"unknown_name"}
ReqValues == { <<"1">>, <<"-", "9">> }
Queries ==
    {NoQuery,
     [keys |-> {"var"}, var |-> ChainNames[1], val |-> <<>>],
     [keys |-> {"val"}, var |-> "", val |-> <<"1">>]}
    \cup {[keys |-> {"var", "val"}, var |-> n, val |-> v] : n \in ReqNames, v \in ReqValues}

\* what the environment does to one /control request: nothing goes wrong,
\* or one of malloc, httpd_req_get_url_query_str and the send fails
CmdFaults == {"none", "malloc", "query_str", "send"}

\* lines 236-239
IndexHandler ==
    /\ Alive
    /\ cPc = "idle"
    /\ \E sendOk \in BOOLEAN :
          /\ cResp' = [status |-> 200, type |-> "text/html", hdrs |-> {},
                       body |-> IF sendOk THEN <<"INDEX_HTML">> ELSE <<>>]
          /\ cRet' = SendResult(sendOk)
    /\ creq' = [path |-> "/", query |-> NoQuery, fault |-> "none"]
    /\ calls' = <<>> /\ capLog' = <<>>
    /\ UNCHANGED << driverVars, streamVars, filterVars, cPc, cfb, cres >>

\* lines 341-412
CmdHandler ==
    /\ Alive
    /\ cPc = "idle"
    /\ \E q \in Queries, fault \in CmdFaults :
          LET r == cmd_handler(q, fault # "malloc", fault # "query_str",
                               fault # "send", pixformat, params)
          IN  /\ creq' = [path |-> "/control", query |-> q, fault |-> fault]
              /\ cResp' = r.resp
              /\ cRet' = r.ret
              /\ calls' = r.calls
              /\ params' = r.params
    /\ capLog' = <<>>
    /\ UNCHANGED << pixformat, pool, now, streamVars, filterVars, cPc, cfb, cres >>

\* lines 250-254: what capture_handler answers and returns without a frame
CaptureNoFrameSendsEmptyImage ==
    [resp |-> [NoResponse EXCEPT !.status = 200, !.body = <<PART_JPG>>],
     ret |-> ESP_OK]

CaptureNoFrame ==
    [resp |-> [NoResponse EXCEPT !.status = 500], ret |-> ESP_FAIL]

\* lines 242-256: fb = esp_camera_fb_get(), and the 500 when there is none
CaptureAcquire ==
    /\ Alive
    /\ cPc = "idle"
    /\ creq' = [path |-> "/capture", query |-> NoQuery, fault |-> "none"]
    /\ calls' = <<>>
    /\ cres' = ESP_OK
    /\ \E f \in esp_camera_fb_get(pool, pixformat) :
          /\ cfb' = f
          /\ IF f = NoFrame
             THEN /\ cResp' = CaptureNoFrame.resp
                  /\ cRet' = CaptureNoFrame.ret
                  /\ capLog' = <<>>
                  /\ pool' = pool
                  /\ cPc' = "idle"
             ELSE /\ cResp' = NoResponse
                  /\ cRet' = cRet
                  /\ capLog' = <<"get">>
                  /\ pool' = [pool EXCEPT ![f.slot] = "capture"]
                  /\ cPc' = "cap_hdr"
    /\ UNCHANGED << pixformat, params, now, streamVars, filterVars >>

\* lines 258-263, and 279-281 when a header could not be set
CaptureSetHeaders ==
    /\ Alive
    /\ cPc = "cap_hdr"
    /\ \E typeOk \in BOOLEAN, hdrOk \in BOOLEAN :
          LET r == IF typeOk /\ hdrOk THEN ESP_OK ELSE ESP_FAIL IN
          /\ cres' = r
          /\ cResp' = [cResp EXCEPT
                !.type = IF typeOk THEN "image/jpeg" ELSE @,
                !.hdrs = IF typeOk /\ hdrOk THEN {"Content-Disposition"} ELSE @]
          /\ IF r = ESP_OK
             THEN /\ cPc' = "cap_send"
                  /\ UNCHANGED << pool, cfb, cRet, capLog >>
             ELSE /\ pool' = esp_camera_fb_return(pool, cfb)
                  /\ capLog' = Append(capLog, "return")
                  /\ cfb' = NoFrame
                  /\ cRet' = r
                  /\ cPc' = "idle"
    /\ UNCHANGED << pixformat, params, now, streamVars, filterVars, creq, calls >>

\* lines 264-273: the payload is sent, a raw frame through the chunked encoder
CaptureSend ==
    /\ Alive
    /\ cPc = "cap_send"
    /\ \E sendOk \in BOOLEAN :
          /\ cres' = SendResult(sendOk)
          /\ cResp' = [cResp EXCEPT
                !.status = 200,
                !.body = IF cfb.format = PIXFORMAT_JPEG
                         THEN (IF sendOk THEN Append(@, PART_JPG) ELSE @)
                         ELSE (IF sendOk THEN @ \o <<"jpg_chunks", "last_chunk">>
                               ELSE Append(@, "last_chunk"))]
    /\ capLog' = Append(capLog, "send")
    /\ cPc' = "cap_release"
    /\ UNCHANGED << driverVars, streamVars, filterVars, cfb, creq, cRet, calls >>

\* which exit of capture_handler releases the frame: lines 274-277
CaptureReleaseForgotten(p, f) == p

CaptureReleaseOp(p, f) == esp_camera_fb_return(p, f)

CaptureRelease ==
    /\ Alive
    /\ cPc = "cap_release"
    /\ pool' = CaptureReleaseOp(pool, cfb)
    /\ capLog' = IF pool' # pool THEN Append(capLog, "return") ELSE capLog
    /\ cfb' = NoFrame
    /\ cRet' = cres
    /\ cPc' = "idle"
    /\ UNCHANGED << pixformat, params, now, streamVars, filterVars, cres, creq,
                    cResp, calls >>

StreamNext ==
    \/ StreamStart
    \/ StreamAcquire
    \/ StreamConvert
    \/ StreamWriteHeader
    \/ StreamWritePayload
    \/ StreamWriteBoundary
    \/ StreamGiveBack
    \/ StreamRecord

ControlNext ==
    \/ IndexHandler
    \/ CmdHandler
    \/ CaptureAcquire
    \/ CaptureSetHeaders
    \/ CaptureSend
    \/ CaptureRelease

\* the two listeners run concurrently, each serving one request at a time
Next == StreamNext \/ ControlNext

Spec == Init /\ [][Next]_vars

(***************************************************************************)
(* StreamSpec and ControlSpec: one listener on its own.  All the other     *)
(* listener can do to it is hold slots of the pool, which makes an acquire *)
(* time out; esp_camera_fb_get already fails nondeterministically.         *)
(***************************************************************************)
StreamSpec == Init /\ [][StreamNext]_vars

ControlSpec == Init /\ [][ControlNext]_vars

(***************************************************************************)
(* StreamCaptureSpec: the two handlers that take frames from the pool, a   *)
(* stream session on one listener and /capture requests on the other.      *)
(***************************************************************************)
CaptureNext ==
    \/ CaptureAcquire
    \/ CaptureSetHeaders
    \/ CaptureSend
    \/ CaptureRelease

StreamCaptureNext == StreamNext \/ CaptureNext

StreamCaptureSpec == Init /\ [][StreamCaptureNext]_vars

(***************************************************************************)
(* FilterSpec: the rate filter on its own.  ra_filter_init is applied to   *)
(* the zeroed static with a window of 1..MaxWindow, then ra_filter_run is  *)
(* fed samples of 0..MaxSample.                                            *)
(***************************************************************************)
FilterInit ==
    /\ ra_filter = ZeroFilter
    /\ fed = <<>>
    /\ \E w \in 1..MaxWindow, mallocOk \in BOOLEAN :
          ra_filter' = ra_filter_init(w, mallocOk)
    /\ UNCHANGED << driverVars, streamVars, controlVars, fed, avg >>

FilterRun ==
    /\ Len(fed) < MaxSamples
    /\ \E value \in 0..MaxSample :
          LET r == ra_filter_run(ra_filter, value) IN
          /\ ra_filter' = r.filter
          /\ avg' = r.ret
          /\ fed' = IF ra_filter.values = <<>> THEN fed ELSE Append(fed, value)
    /\ UNCHANGED << driverVars, streamVars, controlVars >>

FilterNext == FilterInit \/ FilterRun

FilterSpec == Init /\ [][FilterNext]_vars

(***************************************************************************)
(* Properties of the stream loop (StreamSpec).                             *)
(***************************************************************************)
\* hardware frames the stream handler holds, converted buffers it holds
HeldFrames == sess.gets - sess.returns
HeldBuffers == sess.allocs - sess.frees
Outstanding == HeldFrames + HeldBuffers
StreamSlots == {i \in DOMAIN pool : pool[i] = "stream"}
InLoop == sPc \notin {"idle", "panic"}

\* C1: in a stream session every acquired frame is given back exactly once
\* and before the next acquire: the releases never run ahead of the acquires
\* nor fall more than one behind, the pool agrees with the count, the next
\* acquire is issued only with every earlier frame given back, and when the
\* handler returns nothing is held (k acquires, k releases); the same holds
\* of the buffers conversion allocates and their deallocation.
C1_AcquireReleasePaired ==
    /\ sess.returns <= sess.gets /\ sess.gets <= sess.returns + 1
    /\ sess.frees <= sess.allocs /\ sess.allocs <= sess.frees + 1
    /\ Cardinality(StreamSlots) = HeldFrames
    /\ sPc = "acquire" => sess.gets = sess.returns /\ sess.allocs = sess.frees
    /\ sess.returned =>
          /\ sess.gets = sess.returns /\ sess.allocs = sess.frees
          /\ fb = NoFrame /\ jpg_buf = NULL /\ StreamSlots = {}

\* a session of two acquired frames that a failed write ended
C1_Witness ==
    /\ sess.returned /\ sess.gets = 2 /\ sess.returns = 2
    /\ sess.failedWrite = PART_BOUNDARY

\* an iteration that acquired a frame has performed its give-back step
IterationDone == sess.itAcquired /\ sPc \in {"record", "acquire", "idle"}

\* C2 (as claimed): an iteration that acquired a frame performs exactly one
\* of the two give-backs, the release or the deallocation, never both.
C2_ExactlyOneGiveBack == IterationDone => sess.itReturns + sess.itFrees = 1

\* C2 (amended): an iteration that acquired a frame releases the hardware
\* frame exactly once, and deallocates a converted buffer exactly once when
\* conversion produced one and never otherwise; a compressed frame is never
\* converted, so a raw frame that was converted sees both give-backs.
C2_GiveBackPerIteration ==
    IterationDone =>
       /\ sess.itReturns = 1
       /\ sess.itFrees = sess.itAllocs
       /\ sess.itAllocs <= 1
       /\ pixformat = PIXFORMAT_JPEG => sess.itAllocs = 0

\* a raw frame was converted, released and its buffer freed in one iteration
C2_Witness ==
    /\ IterationDone /\ pixformat # PIXFORMAT_JPEG
    /\ sess.itReturns = 1 /\ sess.itFrees = 1

\* k complete parts as they appear on the connection
RECURSIVE Parts(_)
Parts(k) ==
    IF k = 0 THEN <<>>
    ELSE Parts(k - 1) \o <<PART_HDR, PART_JPG, PART_BOUNDARY>>

\* the session ended because a write failed
WriteFailureEnded == sess.returned /\ sess.failedWrite # ""

\* C3 (as claimed): when a write fails in iteration k+1 the connection holds
\* exactly k completed parts and nothing of part k+1, whichever write failed.
C3_NoPartialPart ==
    WriteFailureEnded =>
       /\ sResp.body = Parts(sess.parts)
       /\ sess.itWrites = <<>>

\* C3 (amended): when a write fails in iteration k+1 the loop ends in that
\* iteration with exactly k completed parts, followed by exactly the chunks
\* of part k+1 that come before the failed write (none, the header, or the
\* header and the payload); nothing is written after the failed write.
C3_PartialPartIsPrefix ==
    WriteFailureEnded =>
       /\ sess.itWrites =
             CASE sess.failedWrite = PART_HDR -> <<>>
               [] sess.failedWrite = PART_JPG -> <<PART_HDR>>
               [] sess.failedWrite = PART_BOUNDARY -> <<PART_HDR, PART_JPG>>
       /\ sResp.body = Parts(sess.parts) \o sess.itWrites
       /\ sess.parts = sess.gets - 1

\* one part was completed and the payload write of the second one failed
C3_Witness ==
    /\ WriteFailureEnded /\ sess.parts = 1 /\ sess.failedWrite = PART_JPG
    /\ sResp.body = <<PART_HDR, PART_JPG, PART_BOUNDARY, PART_HDR>>

ControlServed == cPc = "idle" /\ creq.path = "/control"
BothKeys == creq.query.keys = {"var", "val"}
MissingKey == creq.query.keys # {} /\ ~BothKeys
ErrorStatus == {404, 500}

\* C4: a /control request for framesize served while the sensor's pixel
\* format is not JPEG does not call set_framesize and is answered with an
\* error response, not 200.
C4_FramesizeRejectedWhenRaw ==
    (ControlServed /\ BothKeys /\ creq.query.var = "framesize"
       /\ pixformat # PIXFORMAT_JPEG)
      => (calls = <<>> /\ cResp.status \in ErrorStatus)

\* C5 (as claimed): a /control request whose query is present but lacks val
\* or var is answered 404, never 500, also when the buffer allocation fails,
\* and calls no driver setter.
C5_MissingKeyAlways404 ==
    (ControlServed /\ MissingKey) => (cResp.status = 404 /\ calls = <<>>)

\* C5 (amended): such a request calls no driver setter and returns ESP_FAIL;
\* it is answered 404 whenever the query buffer was allocated, and 500
\* exactly when that allocation failed.
C5_MissingKey404UnlessNoMemory ==
    (ControlServed /\ MissingKey) =>
       /\ calls = <<>>
       /\ cRet = ESP_FAIL
       /\ cResp.status = IF creq.fault = "malloc" THEN 500 ELSE 404

\* a query with var but no val was answered 404
C5_Witness ==
    /\ ControlServed /\ creq.query.keys = {"var"} /\ creq.fault = "none"
    /\ cResp.status = 404 /\ calls = <<>>

\* C6: a /control request with both keys whose var is none of the 23 names
\* is answered with an error response, calls no driver setter and leaves the
\* Sensor Parameter Set as it was, whatever the sensor state.
C6_UnknownNameRejected ==
    [][(creq'.path = "/control" /\ creq'.query.keys = {"var", "val"}
          /\ creq'.query.var \notin KnownNames)
        => (cResp'.status \in ErrorStatus /\ calls' = <<>> /\ params' = params)]_vars

\* an unknown name was answered 500 after an earlier request had changed
\* the parameter set
C6_Witness ==
    /\ ControlServed /\ BothKeys /\ creq.query.var = "unknown_name"
    /\ creq.fault = "none" /\ cResp.status = 500
    /\ params["set_framesize"] = 1

\* C7: when capture_handler gets no frame it answers 500, writes nothing to
\* the response body, releases nothing and returns ESP_FAIL.
C7_CaptureWithoutFrame ==
    [][(cPc = "idle" /\ creq'.path = "/capture" /\ cPc' = "idle"
          /\ controlVars' # controlVars)
        => (/\ cResp'.status = 500 /\ cResp'.body = <<>>
            /\ cRet' = ESP_FAIL
            /\ capLog' = <<>> /\ pool' = pool /\ cfb' = NoFrame)]_vars

\* a /capture that got no frame has been answered
C7_Witness ==
    /\ cPc = "idle" /\ creq.path = "/capture" /\ capLog = <<>>
    /\ cResp.status = 500 /\ cRet = ESP_FAIL

CaptureSlots == {i \in DOMAIN pool : pool[i] = "capture"}

\* C8: capture_handler releases every frame it acquired exactly once before
\* it returns, on every exit path, and never before the payload write: while
\* it runs it holds exactly its one frame, unreleased; when it has returned
\* its frame events are get, return (a header could not be set) or get,
\* send, return, and it holds nothing.
C8_CaptureReleasesOnce ==
    /\ cPc # "idle" =>
          /\ Cardinality(CaptureSlots) = 1 /\ cfb # NoFrame
          /\ capLog \in {<<"get">>, <<"get", "send">>}
          /\ (cPc = "cap_release") = (capLog = <<"get", "send">>)
    /\ cPc = "idle" =>
          /\ CaptureSlots = {} /\ cfb = NoFrame
          /\ (creq.path = "/capture" /\ capLog # <<>>) =>
                /\ capLog \in {<<"get", "return">>, <<"get", "send", "return">>}
                /\ (capLog = <<"get", "return">>) = (cRet # ESP_OK /\ cResp.status = 0)

\* a capture whose send failed has released its frame
C8_Witness ==
    /\ cPc = "idle" /\ creq.path = "/capture"
    /\ capLog = <<"get", "send", "return">> /\ cRet = ESP_FAIL

(***************************************************************************)
(* Properties of the rate filter (FilterSpec).                             *)
(***************************************************************************)
Min(a, b) == IF a <= b THEN a ELSE b

\* the sum of the last m elements of a sequence
RECURSIVE SumLast(_, _)
SumLast(seq, m) ==
    IF m = 0 THEN 0 ELSE seq[Len(seq)] + SumLast(SubSeq(seq, 1, Len(seq) - 1), m - 1)

\* C10: after samples s1..sn were recorded on a filter that ra_filter_init
\* created with window w >= 1, the running sum is the sum of the last
\* min(n, w) samples and the average returned last is that sum divided by
\* min(n, w).
C10_WindowedAverage ==
    ra_filter.values # <<>> =>
       LET n == Len(fed)
           m == Min(n, ra_filter.size)
       IN  /\ ra_filter.sum = SumLast(fed, m)
           /\ n >= 1 => avg = SumLast(fed, m) \div m

\* more samples than the window holds, and the oldest ones were not zero
C10_Witness ==
    /\ ra_filter.values # <<>> /\ ra_filter.size = 2 /\ Len(fed) = 4
    /\ fed[1] = 2 /\ fed[2] = 1 /\ ra_filter.sum = 3 /\ avg = 1

(***************************************************************************)
(* The rate filter inside the stream loop (StreamSpec).                    *)
(***************************************************************************)
\* a step that starts a stream session, and the step that records the
\* first sample of a session
SessionStarts == sPc = "idle" /\ sPc' = "acquire"
FirstRecord == sPc = "record" /\ sPc' = "acquire" /\ sess.records = 0

C12_FilterHasBufferWhenRecording ==
    sPc = "record" =>
       /\ ra_filter.values # <<>>
       /\ ra_filter.size >= 1
       /\ Len(ra_filter.values) = ra_filter.size

(***************************************************************************)
(* How the stream loop ends (StreamSpec).                                  *)
(***************************************************************************)
\* the last iteration got no frame; got a raw frame whose conversion failed;
\* had a write fail
AcquireFailed == ~sess.itAcquired
ConversionFailed ==
    sess.itAcquired /\ pixformat # PIXFORMAT_JPEG /\ sess.itAllocs = 0
WriteFailed == sess.failedWrite # ""

\* the loop was entered and the handler has returned
LoopReturned == sess.returned /\ sResp.type = STREAM_CONTENT_TYPE

\* a loop whose handler returned was ended by exactly one of the three
\* failures, in the iteration where it happened: once res is not ESP_OK no
\* frame is acquired, no write is attempted and no sample is recorded; a
\* failed acquire wrote nothing; a failed conversion released the frame and
\* wrote nothing
LoopEndedByFailure ==
    /\ sPc \in {"acquire", "convert", "record"} => res = ESP_OK
    /\ (InLoop /\ res # ESP_OK) =>
          (AcquireFailed \/ ConversionFailed \/ WriteFailed)
    /\ (InLoop /\ AcquireFailed /\ sPc # "acquire") =>
          (res = ESP_FAIL /\ sess.itWrites = <<>> /\ ~WriteFailed)
    /\ (InLoop /\ ConversionFailed /\ sPc # "convert") =>
          /\ res = ESP_FAIL /\ sess.itWrites = <<>> /\ ~WriteFailed
          /\ sess.itReturns = 1 /\ fb = NoFrame /\ StreamSlots = {}
    /\ LoopReturned =>
          /\ res = ESP_FAIL
          /\ (IF AcquireFailed THEN 1 ELSE 0) + (IF ConversionFailed THEN 1 ELSE 0)
                + (IF WriteFailed THEN 1 ELSE 0) = 1
          /\ (AcquireFailed \/ ConversionFailed) => sess.itWrites = <<>>
          /\ ConversionFailed => sess.itReturns = 1

\* C13: the stream loop ends only by an acquire failure, a conversion
\* failure or a write failure, in the iteration of the failure and without
\* a further acquire or write; while acquires, conversions and writes
\* succeed the loop is never left.
C13_LoopEndsOnlyOnFailure ==
    /\ LoopEndedByFailure
    /\ sPc = "panic" => (AcquireFailed \/ ConversionFailed \/ WriteFailed)

\* C14: a buffer that frame2jpg allocated in the stream loop is passed to
\* free exactly once, before the next iteration and before the handler
\* returns, and is never given to esp_camera_fb_return (it is held only
\* while no hardware frame is, so the give-back takes the free branch, and
\* no release happens beyond the acquired frames); a buffer of a
\* hardware-pool frame is never passed to free.
C14_ConvertedBufferFreedOnce ==
    /\ sess.poolFrees = 0
    /\ sess.frees <= sess.allocs /\ sess.allocs <= sess.frees + 1
    /\ (jpg_buf = BUF_MALLOC) = (sess.allocs = sess.frees + 1)
    /\ jpg_buf = BUF_MALLOC => (fb = NoFrame /\ StreamSlots = {})
    /\ sess.returns <= sess.gets
    /\ sPc \in {"acquire", "record", "idle"} =>
          (sess.allocs = sess.frees /\ jpg_buf = NULL)
    /\ IterationDone => (sess.itFrees = sess.itAllocs /\ sess.itReturns = 1)
    /\ pixformat = PIXFORMAT_JPEG => (sess.allocs = 0 /\ sess.frees = 0)

\* a session on a raw sensor converted two frames, freed both buffers and
\* ended when the third acquire failed
C14_Witness ==
    /\ sess.returned /\ pixformat = PIXFORMAT_RGB565
    /\ sess.allocs = 2 /\ sess.frees = 2 /\ sess.returns = 2
    /\ sess.failedWrite = "" /\ ~sess.itAcquired

(***************************************************************************)
(* Repeating a /control request (ControlSpec).                             *)
(***************************************************************************)
\* what the environment may do to the repetition of a request: when the
\* name and value were read the first time they are read again, and the
\* send may go either way; when reading them failed it fails the same way
SecondFaults(fault) ==
    IF fault \in {"none", "send"} THEN {"none", "send"} ELSE {fault}

\* cmd_handler serving the request served last once more, in the state the
\* first service left
SameRequestAgain(fault) ==
    cmd_handler(creq.query, fault # "malloc", fault # "query_str",
                fault # "send", pixformat, params)

\* C15: when the /control request just served is served again with nothing
\* in between, the second service gives the response of the first (the same
\* status and headers), makes the same driver calls and leaves the Sensor
\* Parameter Set as the first left it, and returns the same value when its
\* send fares the same; a request answered with an error has not changed
\* the set, either time.
C15_RepeatedControlSameOutcome ==
    /\ [](ControlServed =>
            \A fault \in SecondFaults(creq.fault) :
               LET r == SameRequestAgain(fault) IN
               /\ r.resp = cResp
               /\ r.calls = calls
               /\ r.params = params
               /\ fault = creq.fault => r.ret = cRet)
    /\ [][(creq'.path = "/control" /\ cResp'.status \in ErrorStatus)
            => params' = params]_vars

\* framesize=1 was applied to a set that held another frame size: applying
\* it again finds the set already at 1
C15_Witness ==
    /\ ControlServed /\ BothKeys /\ creq.query.var = "framesize"
    /\ creq.query.val = <<"1">> /\ creq.fault = "send"
    /\ cResp.status = 200 /\ cRet = ESP_FAIL
    /\ calls = << <<"set_framesize", 1>> >> /\ params["set_framesize"] = 1

(***************************************************************************)
(* The two listeners together (Spec).                                      *)
(***************************************************************************)
\* the stream handler is inside its loop
SessionActive == InLoop

\* the control listener can take its next step: accept any of its three
\* requests when it is idle, go on with the capture it is serving otherwise
ControlProceeds ==
    /\ cPc = "idle" =>
          (ENABLED IndexHandler /\ ENABLED CmdHandler /\ ENABLED CaptureAcquire)
    /\ cPc = "cap_hdr" => ENABLED CaptureSetHeaders
    /\ cPc = "cap_send" => ENABLED CaptureSend
    /\ cPc = "cap_release" => ENABLED CaptureRelease

\* a /stream connection is taken up only when no session is running
OneSessionAtATime == ENABLED StreamStart => ~SessionActive

\* as long as the firmware runs, the control listener proceeds whatever the
\* stream session does
ProceedsWhileAlive ==
    /\ OneSessionAtATime
    /\ Alive => ControlProceeds

\* C16: the stream listener serves one session at a time, and the control
\* listener makes progress whatever the stream session does: a request to
\* /, /control or /capture that arrives or is being served while a session
\* runs can always take its next step, whether one or two frames are in the
\* pool, so it is answered without waiting for the session to end.
C16_ControlProgressDuringStream ==
    /\ OneSessionAtATime
    /\ ControlProceeds

\* a listener whose handler has returned is accepting again and holds no
\* frame, and with both listeners idle the whole pool is free for the
\* request that comes next
ControlAccepting ==
    cPc = "idle" =>
       /\ cfb = NoFrame /\ CaptureSlots = {}
       /\ ENABLED IndexHandler /\ ENABLED CmdHandler /\ ENABLED CaptureAcquire
StreamAccepting ==
    ~SessionActive =>
       /\ fb = NoFrame /\ jpg_buf = NULL /\ StreamSlots = {}
       /\ ENABLED StreamStart
PoolFreeWhenIdle ==
    (cPc = "idle" /\ sPc = "idle") => FreeSlots(pool) = DOMAIN pool

\* as long as the firmware runs, every return of a handler leaves its
\* listener accepting and without a frame
AcceptingWhileAlive ==
    Alive => (ControlAccepting /\ StreamAccepting /\ PoolFreeWhenIdle)

\* C17: no failure of a single request is fatal to the device: whenever a
\* handler has returned, with whatever outcome, its listener is accepting
\* again and holds no frame, and a request that follows on either listener
\* is taken up, with the whole pool free when both listeners are idle.
C17_NoFailureIsFatal ==
    ControlAccepting /\ StreamAccepting /\ PoolFreeWhenIdle

\* the /control request served last failed: it was answered 404 or 500, or
\* it was a framesize request that the pixel-format guard kept from the
\* driver
GuardedFramesize ==
    /\ BothKeys /\ creq.fault \notin {"malloc", "query_str"}
    /\ creq.query.var = "framesize" /\ pixformat # PIXFORMAT_JPEG
ControlFailed ==
    creq.path = "/control" /\ (cResp.status \in ErrorStatus \/ GuardedFramesize)

\* a step in which cmd_handler serves a request
CmdHandlerStep ==
    /\ cPc = "idle" /\ cPc' = "idle" /\ creq'.path = "/control"
    /\ (controlVars' # controlVars \/ params' # params)

\* C18: a /control request that fails (missing query arguments, unknown
\* name, guarded framesize, value rejected by the driver) changes nothing of
\* a stream session running at the same time, neither the frame it holds,
\* nor its position in the header, payload, boundary sequence, nor the
\* occupancy of the pool, nor the rate filter, and leaves the Sensor
\* Parameter Set as it was.
C18_FailedControlLeavesStreamAlone ==
    [][(CmdHandlerStep /\ ControlFailed')
        => /\ streamVars' = streamVars
           /\ pool' = pool
           /\ filterVars' = filterVars
           /\ params' = params]_vars

\* the driver rejected framesize=-9 while a stream session holds a frame
\* and is between the header and the payload of its second part
C18_Witness ==
    /\ ControlFailed /\ cPc = "idle" /\ BothKeys
    /\ creq.query.var = "framesize" /\ creq.query.val = << "-", "9" >>
    /\ calls = << <<"set_framesize", -9>> >> /\ cResp.status = 500
    /\ sPc = "write_jpg" /\ fb # NoFrame /\ sess.gets = 2
    /\ sess.itWrites = <<PART_HDR>> /\ Cardinality(StreamSlots) = 1

(***************************************************************************)
(* The three writes of a part (StreamSpec).                                *)
(***************************************************************************)
\* the chunks of one part in the order of lines 452-461
PartChunks == << PART_HDR, PART_JPG, PART_BOUNDARY >>

\* the value a client reads from the Content-Length line of a part header
ContentLength(digits) == AtoiDigits(digits, 0)

\* C19: the writes of an iteration are the header, the payload and the
\* boundary in this order; a write is attempted only when every earlier
\* write of the iteration succeeded, so what an iteration has written is a
\* prefix of the three chunks that stops before a failed write, and the
\* connection carries the completed parts followed by that prefix; the
\* Content-Length of the header is the length of the payload that the next
\* write sends.
C19_HeaderPayloadBoundaryInOrder ==
    /\ \E k \in 0..3 : sess.itWrites = SubSeq(PartChunks, 1, k)
    /\ sResp.body = Parts(sess.parts) \o
                    (IF Len(sess.itWrites) = 3 THEN <<>> ELSE sess.itWrites)
    /\ (sPc = "write_jpg" /\ res = ESP_OK) =>
          /\ sess.itWrites = << PART_HDR >>
          /\ ContentLength(sess.hdrLen) = jpg_buf_len /\ jpg_buf_len >= 1
    /\ (sPc = "write_boundary" /\ res = ESP_OK) =>
          sess.itWrites = << PART_HDR, PART_JPG >>
    /\ (sPc = "give_back" /\ res = ESP_OK) => sess.itWrites = PartChunks
    /\ Len(sess.itWrites) >= 2 => ContentLength(sess.hdrLen) = sess.payLen
    /\ (InLoop /\ WriteFailed) =>
          /\ res = ESP_FAIL
          /\ sess.itWrites =
                CASE sess.failedWrite = PART_HDR -> <<>>
                  [] sess.failedWrite = PART_JPG -> << PART_HDR >>
                  [] sess.failedWrite = PART_BOUNDARY -> << PART_HDR, PART_JPG >>

\* the second part of a session is complete: its header announced 2 bytes
\* and its payload had 2, after a first part of 1 byte
C19_Witness ==
    /\ sPc = "give_back" /\ res = ESP_OK /\ sess.parts = 2
    /\ sess.itWrites = PartChunks /\ sess.hdrLen = << "2" >> /\ sess.payLen = 2
    /\ sResp.body = PartChunks \o PartChunks

(***************************************************************************)
(* Reads of frame buffers by the two handlers (StreamCaptureSpec).         *)
(***************************************************************************)
WritePositions == {"write_hdr", "write_jpg", "write_boundary"}

\* the frame events of capture_handler in which the send comes before the
\* release
SendBeforeRelease ==
    {<<>>, <<"get">>, <<"get", "send">>, <<"get", "return">>,
     <<"get", "send", "return">>}

\* C20: no handler reads a buffer of the hardware pool after its release.
\* Whenever the stream loop is about to attempt a write, _jpg_buf is either
\* the buffer of the frame fb, which the handler still holds unreleased, or
\* a converted buffer that has not been freed, of a raw frame that was
\* released right after conversion.  A compressed frame stays held, the
\* three writes attempted or not, until the give-back; capture_handler
\* holds its frame from the acquire until after its send, and the two
\* handlers never hold the same slot.
C20_NoUseAfterRelease ==
    /\ (sPc \in WritePositions /\ res = ESP_OK) =>
          /\ jpg_buf # NULL
          /\ jpg_buf = BUF_OF_FB =>
                /\ fb # NoFrame /\ pool[fb.slot] = "stream"
                /\ sess.itReturns = 0 /\ jpg_buf_len = fb.len
          /\ jpg_buf = BUF_MALLOC =>
                /\ fb = NoFrame /\ sess.itReturns = 1
                /\ sess.itFrees = 0 /\ HeldBuffers = 1
    /\ (sess.itAcquired /\ sPc \in WritePositions \cup {"give_back"}) =>
          IF pixformat = PIXFORMAT_JPEG
          THEN /\ fb # NoFrame /\ pool[fb.slot] = "stream"
               /\ jpg_buf = BUF_OF_FB /\ sess.itReturns = 0
          ELSE /\ fb = NoFrame /\ StreamSlots = {}
               /\ sess.itReturns = 1 /\ sess.itFrees = 0
               /\ res = ESP_OK => jpg_buf = BUF_MALLOC
    /\ cPc \in {"cap_hdr", "cap_send", "cap_release"} =>
          /\ cfb # NoFrame /\ pool[cfb.slot] = "capture"
          /\ capLog \in {<<"get">>, <<"get", "send">>}
    /\ capLog \in SendBeforeRelease
    /\ (fb # NoFrame /\ cfb # NoFrame) => fb.slot # cfb.slot

\* a stream session has written the payload from the frame it still holds
\* while capture_handler, holding the other slot, is about to send
C20_Witness ==
    /\ sPc = "write_boundary" /\ res = ESP_OK /\ pixformat = PIXFORMAT_JPEG
    /\ sess.itWrites = << PART_HDR, PART_JPG >>
    /\ fb # NoFrame /\ pool[fb.slot] = "stream" /\ sess.itReturns = 0
    /\ cPc = "cap_send" /\ cfb # NoFrame /\ pool[cfb.slot] = "capture"

(***************************************************************************)
(* Samples given to the rate filter by the stream loop (StreamSpec).       *)
(***************************************************************************)
\* the iteration has completed its part and its sample is not recorded yet
SampleDue ==
    sPc \in {"give_back", "record"} /\ res = ESP_OK /\ sess.itWrites = PartChunks

\* C21: ra_filter_run is called once for every completed part and never
\* for an iteration that fails: the calls of a session equal its completed
\* parts, less one between the boundary write of a part and its call; the
\* call is made only after the frame or converted buffer of the iteration
\* was given back; and when the handler has returned after k parts there
\* were k calls, the iteration that broke the loop having completed no part
\* and recorded nothing.
C21_OneSamplePerCompletedPart ==
    /\ sess.records = sess.parts - (IF SampleDue THEN 1 ELSE 0)
    /\ sPc = "record" =>
          /\ SampleDue
          /\ fb = NoFrame /\ jpg_buf = NULL /\ Outstanding = 0
          /\ sess.itReturns = 1 /\ sess.itFrees = sess.itAllocs
    /\ (InLoop /\ res # ESP_OK) => (sPc # "record" /\ sess.itWrites # PartChunks)
    /\ LoopReturned =>
          /\ sess.records = sess.parts
          /\ sess.itWrites # PartChunks
          /\ sess.parts = IF AcquireFailed THEN sess.gets ELSE sess.gets - 1

\* a session completed two parts, recorded two samples and ended when the
\* third acquire failed
C21_Witness ==
    /\ LoopReturned /\ AcquireFailed
    /\ sess.parts = 2 /\ sess.records = 2 /\ sess.gets = 2

(***************************************************************************)
(* Ranges of the rate filter's fields (FilterSpec).                        *)
(***************************************************************************)
\* ra_filter_init has given the filter a buffer
Initialised == ra_filter.values # <<>>

\* a step in which ra_filter_run records a sample on an initialised filter
RecordStep == Initialised /\ fed' # fed

\* C22: on a filter that ra_filter_init created with a window w >= 1, after
\* any number of ra_filter_run calls the write index is in 0..w-1 and the
\* count of valid samples in 0..w; the count is at least 1 when a call
\* divides the sum by it; and a call writes one slot of the buffer, the one
\* at the index before the call, which then holds the sample, every other
\* slot keeping its value.
C22_IndexAndCountInRange ==
    /\ [](Initialised =>
            /\ ra_filter.size >= 1 /\ Len(ra_filter.values) = ra_filter.size
            /\ ra_filter.index \in 0..(ra_filter.size - 1)
            /\ ra_filter.count \in 0..ra_filter.size
            /\ ra_filter.index = Len(fed) % ra_filter.size
            /\ ra_filter.count = Min(Len(fed), ra_filter.size))
    /\ [][RecordStep =>
            /\ ra_filter'.count >= 1
            /\ ra_filter'.size = ra_filter.size
            /\ ra_filter'.values[ra_filter.index + 1] = fed'[Len(fed')]
            /\ \A i \in 1..ra_filter.size :
                  i # ra_filter.index + 1 =>
                     ra_filter'.values[i] = ra_filter.values[i]]_vars

\* a window of 3 after four samples: the index has wrapped to 1, the count
\* stays at 3 and the fourth sample replaced the first
C22_Witness ==
    /\ Initialised /\ ra_filter.size = 3 /\ fed = << 1, 2, 0, 2 >>
    /\ ra_filter.index = 1 /\ ra_filter.count = 3
    /\ ra_filter.values = << 2, 2, 0 >>

====
